---- MODULE Spec2Model ----
(***************************************************************************)
(* Model of insert-bia (src/insert-bia/src/main.rs): the mapping table     *)
(* builder, the filename normalizer, the matcher and the per-file merge    *)
(* orchestration driven by main's loop.                                    *)
(*                                                                         *)
(* A string is a sequence of one-character strings.  A u32 is a pair of    *)
(* 16-bit limbs <<hi, lo>> and an i64 four limbs, most significant first,  *)
(* in two's complement, so that casts and arithmetic keep their width.     *)
(***************************************************************************)
EXTENDS Integers, Sequences, FiniteSets, TLC

VARIABLES
    filename,       \* extract_base_name: its argument
    base,           \* extract_base_name: its return value
    pdf_filename,   \* match_pdf_name: its first argument
    mappings,       \* the HashMap<String, u32> built by read_excel_mappings
    iter_order,     \* the order in which mappings.iter() yields the keys
    iter_order2,    \* the order of a second evaluation on the same arguments
    result,         \* match_pdf_name's return value under iter_order
    result2,        \* match_pdf_name's return value under iter_order2
    rows,           \* read_excel_mappings: the rows of the range consumed so far
    excel_pc,       \* read_excel_mappings: "reading", "returned" (Ok) or "failed" (Err)
    pdf_files,      \* main: the paths scan_child_directories returned
    bia_page_count, \* main: the page count of bia.pdf
    target_content, \* the file system: the pages of each discovered target
    temp_file,      \* the file system: merged_output_<pid>.pdf, None when absent
    pc,             \* main and process_pdf_with_qpdf: the next step
    idx,            \* main: the position of the loop in pdf_files
    page_number,    \* process_pdf_with_qpdf: the 1-based page number
    processed,      \* main: files that returned Ok(true)
    skipped,        \* main: files that returned Ok(false)
    errors,         \* main: files that returned Err
    outcomes,       \* main: the line printed for each file, with what its call did
    call            \* process_pdf_with_qpdf: what the current call did so far

nameVars  == <<filename, base>>
matchVars == <<pdf_filename, iter_order, iter_order2, result, result2>>
excelVars == <<rows, excel_pc>>
runVars   == <<pdf_files, bia_page_count, target_content, temp_file, pc, idx,
               page_number, processed, skipped, errors, outcomes, call>>
vars      == <<nameVars, matchVars, excelVars, runVars, mappings>>

-----------------------------------------------------------------------------
(* Bounds of the model *)

MaxNamePieces == 4
MaxRows == 2
MaxDupSuffixes == 2
MaxKeys == 2
MaxFiles == 2

-----------------------------------------------------------------------------
(* Option<T> *)

None == [tag |-> "None"]
Some(v) == [tag |-> "Some", val |-> v]
NotRun == [tag |-> "NotRun"]

unwrap_or(opt, dflt) == IF opt.tag = "Some" THEN opt.val ELSE dflt

-----------------------------------------------------------------------------
(* str primitives of the standard library, as the code uses them *)

\* char::is_whitespace, on the characters of the model's alphabet
is_whitespace(c) == c \in {" ", "\t"}

\* str::starts_with at offset i (1-based)
MatchesAt(s, pat, i) ==
    /\ i >= 1
    /\ i + Len(pat) - 1 <= Len(s)
    /\ SubSeq(s, i, i + Len(pat) - 1) = pat

\* str::find: scans from the left; 0 stands for None, i for Some(i - 1)
RECURSIVE FindFrom(_, _, _)
FindFrom(s, pat, i) ==
    IF i + Len(pat) - 1 > Len(s) THEN 0
    ELSE IF MatchesAt(s, pat, i) THEN i
    ELSE FindFrom(s, pat, i + 1)

find(s, pat) == FindFrom(s, pat, 1)

\* str::contains
contains(s, pat) == find(s, pat) # 0

\* str::strip_suffix
strip_suffix(s, suf) ==
    IF Len(s) >= Len(suf) /\ SubSeq(s, Len(s) - Len(suf) + 1, Len(s)) = suf
    THEN Some(SubSeq(s, 1, Len(s) - Len(suf)))
    ELSE None

\* str::trim_start / str::trim_end / str::trim
RECURSIVE trim_start(_)
trim_start(s) ==
    IF s # <<>> /\ is_whitespace(Head(s)) THEN trim_start(Tail(s)) ELSE s

RECURSIVE trim_end(_)
trim_end(s) ==
    IF s # <<>> /\ is_whitespace(s[Len(s)])
    THEN trim_end(SubSeq(s, 1, Len(s) - 1))
    ELSE s

trim(s) == trim_end(trim_start(s))

\* The components of a path: the text between separators
RECURSIVE SplitPath(_, _)
SplitPath(s, cur) ==
    IF s = <<>> THEN <<cur>>
    ELSE IF Head(s) = "/" THEN <<cur>> \o SplitPath(Tail(s), <<>>)
    ELSE SplitPath(Tail(s), Append(cur, Head(s)))

IsNormalPart(c) == c # <<>> /\ c # <<".">>

\* Path::file_name: the last component if it is a normal one; empty
\* components and "." are skipped, a final ".." or a bare root gives None
file_name(s) ==
    LET comps == SelectSeq(SplitPath(s, <<>>), IsNormalPart)
    IN  IF comps = <<>> THEN None
        ELSE IF comps[Len(comps)] = <<".", ".">> THEN None
        ELSE Some(comps[Len(comps)])

-----------------------------------------------------------------------------
(* Filename normalizer *)

DotPdfLower == <<".", "p", "d", "f">>
DotPdfUpper == <<".", "P", "D", "F">>

normalize_filename(name) ==
    LET filename_only == unwrap_or(file_name(name), name)
        lower == strip_suffix(filename_only, DotPdfLower)
        upper == strip_suffix(filename_only, DotPdfUpper)
    IN  IF lower.tag = "Some" THEN lower.val
        ELSE unwrap_or(upper, filename_only)

\* extract_base_name without the trim after the cut at " ("
extract_base_name_untrimmed(name) ==
    LET normalized == normalize_filename(name)
        posSp == find(normalized, <<" ", "(">>)
        posPar == find(normalized, <<"(">>)
    IN  IF posSp # 0 THEN SubSeq(normalized, 1, posSp - 1)
        ELSE IF posPar # 0 THEN trim(SubSeq(normalized, 1, posPar - 1))
        ELSE normalized

extract_base_name(name) ==
    LET normalized == normalize_filename(name)
        posSp == find(normalized, <<" ", "(">>)
        posPar == find(normalized, <<"(">>)
    IN  IF posSp # 0 THEN trim(SubSeq(normalized, 1, posSp - 1))
        ELSE IF posPar # 0 THEN trim(SubSeq(normalized, 1, posPar - 1))
        ELSE normalized

-----------------------------------------------------------------------------
(* Fixed-width integers.  u32 = <<hi, lo>>, i64 = <<l3, l2, l1, l0>>, each *)
(* limb in 0..LimbBase - 1.                                                *)

LimbBase == 65536
LimbMax == LimbBase - 1

U32Zero == <<0, 0>>
U32Max == <<LimbMax, LimbMax>>

\* a small natural number as a u32
U32Of(n) == <<n \div LimbBase, n % LimbBase>>

\* `i as u32` for an i64: the low 32 bits
i64_as_u32(i) == <<i[3], i[4]>>

\* u32 - 1; the code subtracts only after the test page_num == 0
u32_sub_one(x) ==
    IF x[2] > 0 THEN <<x[1], x[2] - 1>>
    ELSE <<(x[1] + LimbMax) % LimbBase, LimbMax>>

\* u32 + 1, wrapping at 2^32
u32_add_one(x) ==
    IF x[2] < LimbMax THEN <<x[1], x[2] + 1>>
    ELSE <<(x[1] + 1) % LimbBase, 0>>

\* `x as usize > n` for a u32 x and a usize n
u32_gt_usize(x, n) ==
    \/ x[1] > n \div LimbBase
    \/ x[1] = n \div LimbBase /\ x[2] > n % LimbBase

-----------------------------------------------------------------------------
(* calamine::Data cells.  A Float is its sign, the magnitude of its        *)
(* integer part (four limbs) and whether it has a fractional part of .5;   *)
(* NaN is a Float of its own.  Every other kind of cell is "Other".        *)

StringCell(s) == [kind |-> "String", s |-> s]
IntCell(i) == [kind |-> "Int", i |-> i]
FloatCell(neg, mag, half) ==
    [kind |-> "Float", nan |-> FALSE, neg |-> neg, mag |-> mag, half |-> half]
NaNCell ==
    [kind |-> "Float", nan |-> TRUE, neg |-> FALSE, mag |-> <<0, 0, 0, 0>>,
     half |-> FALSE]
OtherCell == [kind |-> "Other"]

\* `f as u32` for an f64: truncates toward zero, saturates, NaN gives 0
f64_as_u32(f) ==
    IF f.nan THEN U32Zero
    ELSE IF f.neg THEN U32Zero
    ELSE IF f.mag[1] # 0 \/ f.mag[2] # 0 THEN U32Max
    ELSE <<f.mag[3], f.mag[4]>>

Digits == <<"0", "1", "2", "3", "4", "5", "6", "7", "8", "9">>

RECURSIVE DecimalOf(_)
DecimalOf(n) ==
    IF n < 10 THEN <<Digits[n + 1]>>
    ELSE Append(DecimalOf(n \div 10), Digits[(n % 10) + 1])

\* i64::to_string, for the values below 2^31 the model puts in column A
i64_to_string(i) == DecimalOf(i[3] * LimbBase + i[4])

\* f64::to_string, for the values below 2^31 the model puts in column A
f64_to_string(f) ==
    IF f.nan THEN <<"N", "a", "N">>
    ELSE (IF f.neg THEN <<"-">> ELSE <<>>)
         \o DecimalOf(f.mag[3] * LimbBase + f.mag[4])
         \o (IF f.half THEN <<".", "5">> ELSE <<>>)

-----------------------------------------------------------------------------
(* Mapping table builder *)

\* HashMap::insert
insert(m, k, v) == [x \in (DOMAIN m) \cup {k} |-> IF x = k THEN v ELSE m[x]]

\* Column A of a row: Some(filename), or None when the row is skipped
filename_of(filename_cell) ==
    IF filename_cell.kind = "String" THEN Some(trim(filename_cell.s))
    ELSE IF filename_cell.kind = "Float" THEN Some(f64_to_string(filename_cell))
    ELSE IF filename_cell.kind = "Int" THEN Some(i64_to_string(filename_cell.i))
    ELSE None

\* Column B of a row: Some(page_num), or None when the row is skipped
page_num_of(page_cell) ==
    IF page_cell.kind = "Int" THEN Some(i64_as_u32(page_cell.i))
    ELSE IF page_cell.kind = "Float" THEN Some(f64_as_u32(page_cell))
    ELSE None

\* One iteration of the loop over range.rows()
read_row(m, row) ==
    IF Len(row) < 2 THEN m
    ELSE LET fname == filename_of(row[1])
             page_num == page_num_of(row[2])
         IN  IF fname.tag = "None" THEN m
             ELSE IF fname.val = <<>> THEN m
             ELSE IF page_num.tag = "None" THEN m
             ELSE IF page_num.val = U32Zero THEN m
             ELSE insert(m, unwrap_or(file_name(fname.val), fname.val),
                         u32_sub_one(page_num.val))

-----------------------------------------------------------------------------
(* Matcher *)

OneInParens == <<"(", "1", ")">>
OneInParensDot == <<"(", "1", ")", ".">>

\* HashMap::get
get(m, k) == IF k \in DOMAIN m THEN Some(m[k]) ELSE None

\* the loop over mappings.iter(), which yields the keys in the order `order`:
\* the page of the first key whose base name is pdf_base_name
RECURSIVE scan_mappings(_, _, _)
scan_mappings(order, m, pdf_base_name) ==
    IF order = <<>> THEN None
    ELSE IF pdf_base_name = extract_base_name(Head(order)) THEN Some(m[Head(order)])
    ELSE scan_mappings(Tail(order), m, pdf_base_name)

\* match_pdf_name with the two exact lookups in the other order
match_pdf_name_ext_first(name, m, order) ==
    LET pdf_base == normalize_filename(name)
        pdf_with_ext == pdf_base \o DotPdfLower
        has_number_one ==
            contains(name, OneInParens) \/ contains(name, OneInParensDot)
        pdf_base_name == extract_base_name(name)
    IN  IF pdf_with_ext \in DOMAIN m THEN Some(m[pdf_with_ext])
        ELSE IF pdf_base \in DOMAIN m THEN Some(m[pdf_base])
        ELSE IF has_number_one
        THEN IF pdf_base_name \in DOMAIN m THEN Some(m[pdf_base_name])
             ELSE scan_mappings(order, m, pdf_base_name)
        ELSE None

\* match_pdf_name without the test for "(1)"
match_pdf_name_ungated(name, m, order) ==
    LET pdf_base == normalize_filename(name)
        pdf_with_ext == pdf_base \o DotPdfLower
        pdf_base_name == extract_base_name(name)
    IN  IF pdf_base \in DOMAIN m THEN Some(m[pdf_base])
        ELSE IF pdf_with_ext \in DOMAIN m THEN Some(m[pdf_with_ext])
        ELSE IF pdf_base_name \in DOMAIN m THEN Some(m[pdf_base_name])
        ELSE scan_mappings(order, m, pdf_base_name)

\* match_pdf_name without the direct lookup of the base name
match_pdf_name_scan_only(name, m, order) ==
    LET pdf_base == normalize_filename(name)
        pdf_with_ext == pdf_base \o DotPdfLower
        has_number_one ==
            contains(name, OneInParens) \/ contains(name, OneInParensDot)
        pdf_base_name == extract_base_name(name)
    IN  IF pdf_base \in DOMAIN m THEN Some(m[pdf_base])
        ELSE IF pdf_with_ext \in DOMAIN m THEN Some(m[pdf_with_ext])
        ELSE IF has_number_one
        THEN scan_mappings(order, m, pdf_base_name)
        ELSE None

match_pdf_name(name, m, order) ==
    LET pdf_base == normalize_filename(name)
        pdf_with_ext == pdf_base \o DotPdfLower
        has_number_one ==
            contains(name, OneInParens) \/ contains(name, OneInParensDot)
        pdf_base_name == extract_base_name(name)
    IN  IF get(m, pdf_base).tag = "Some" THEN get(m, pdf_base)
        ELSE IF get(m, pdf_with_ext).tag = "Some" THEN get(m, pdf_with_ext)
        ELSE IF has_number_one
        THEN IF get(m, pdf_base_name).tag = "Some" THEN get(m, pdf_base_name)
             ELSE scan_mappings(order, m, pdf_base_name)
        ELSE None

\* the orders in which a HashMap with the keys of m can be iterated
IterationOrders(m) ==
    { o \in [1..Cardinality(DOMAIN m) -> DOMAIN m] :
        \A i, j \in DOMAIN o : o[i] = o[j] => i = j }

-----------------------------------------------------------------------------
(* Idle values of the variables a specification does not use *)

NamesIdle == filename = <<>> /\ base = NotRun
MatchIdle ==
    /\ pdf_filename = <<>>
    /\ iter_order = <<>>
    /\ iter_order2 = <<>>
    /\ result = NotRun
    /\ result2 = NotRun
ExcelIdle == rows = <<>> /\ excel_pc = "idle"
EmptyMap == [k \in {} |-> U32Zero]
RunIdle ==
    /\ pdf_files = <<>>
    /\ bia_page_count = 0
    /\ target_content = <<>>
    /\ temp_file = None
    /\ pc = "idle"
    /\ idx = 0
    /\ page_number = U32Zero
    /\ processed = 0
    /\ skipped = 0
    /\ errors = 0
    /\ outcomes = <<>>
    /\ call = None

-----------------------------------------------------------------------------
(* Specification of the normalizer: extract_base_name applied to a name,   *)
(* every concatenation of at most MaxNamePieces pieces                     *)

NamePieces ==
    { <<"a">>, <<" ">>, <<"(">>, <<"(", "1", ")">>, <<"(", "2", ")">>,
      DotPdfLower, DotPdfUpper, <<"/">>, <<".">> }

RECURSIVE Concats(_, _)
Concats(pieces, n) ==
    IF n = 0 THEN { <<>> }
    ELSE LET shorter == Concats(pieces, n - 1)
         IN  shorter \cup { s \o p : s \in shorter, p \in pieces }

Names == Concats(NamePieces, MaxNamePieces)

InitNames ==
    /\ filename \in Names
    /\ base = NotRun
    /\ MatchIdle
    /\ ExcelIdle
    /\ RunIdle
    /\ mappings = EmptyMap

ExtractBaseName ==
    /\ base = NotRun
    /\ base' = Some(extract_base_name(filename))
    /\ UNCHANGED <<filename, matchVars, excelVars, runVars, mappings>>

NextNames == ExtractBaseName

SpecNames == InitNames /\ [][NextNames]_vars

-----------------------------------------------------------------------------
(* Statements about extract_base_name *)

\* pat occurs in s at position i
OccursAt(s, pat, i) ==
    \A k \in 1..Len(pat) : i + k - 1 <= Len(s) /\ s[i + k - 1] = pat[k]

Occurrences(s, pat) == { i \in 1..Len(s) : OccursAt(s, pat, i) }

FirstOccurrence(s, pat) ==
    CHOOSE i \in Occurrences(s, pat) : \A j \in Occurrences(s, pat) : i <= j

\* t is s with its surrounding whitespace removed
IsTrimOf(t, s) ==
    /\ \E i \in 1..(Len(s) + 1) :
          /\ \A k \in 1..(i - 1) : s[k] = " "
          /\ \E j \in (i - 1)..Len(s) :
                /\ \A k \in (j + 1)..Len(s) : s[k] = " "
                /\ t = SubSeq(s, i, j)
    /\ t # <<>> => t[1] # " " /\ t[Len(t)] # " "

\* s cut before position i
CutBefore(s, i) == [k \in 1..(i - 1) |-> s[k]]

\* C9 as stated: the value returned is normalize(name) cut at the first
\* " (", else at the first "(", else whole, and is trimmed of surrounding
\* whitespace in all three cases.
C9_TrimmedInAllCases ==
    base.tag = "Some" =>
        LET n == normalize_filename(filename)
        IN  IF Occurrences(n, <<" ", "(">>) # {}
            THEN IsTrimOf(base.val, CutBefore(n, FirstOccurrence(n, <<" ", "(">>)))
            ELSE IF Occurrences(n, <<"(">>) # {}
            THEN IsTrimOf(base.val, CutBefore(n, FirstOccurrence(n, <<"(">>)))
            ELSE IsTrimOf(base.val, n)

\* C9 amended: the value returned is normalize(name) cut at the first " ("
\* and trimmed, else cut at the first "(" and trimmed, else normalize(name)
\* itself with its whitespace kept.
C9_ExtractBaseName ==
    base.tag = "Some" =>
        LET n == normalize_filename(filename)
        IN  IF Occurrences(n, <<" ", "(">>) # {}
            THEN IsTrimOf(base.val, CutBefore(n, FirstOccurrence(n, <<" ", "(">>)))
            ELSE IF Occurrences(n, <<"(">>) # {}
            THEN IsTrimOf(base.val, CutBefore(n, FirstOccurrence(n, <<"(">>)))
            ELSE base.val = n

\* "a  (1)" yields "a": the cut at the first " (" leaves "a ", the trim "a"
C9_Witness ==
    /\ filename = <<"a", " ", " ", "(", "1", ")">>
    /\ base = Some(<<"a">>)

-----------------------------------------------------------------------------
(* Specification of the mapping table builder: read_excel_mappings over a  *)
(* worksheet of at most MaxRows rows                                       *)

I64Of(n) == <<0, 0, n \div LimbBase, n % LimbBase>>
I64MinusOne == <<LimbMax, LimbMax, LimbMax, LimbMax>>
I64TwoTo32 == <<0, 1, 0, 0>>
I64TwoTo32Plus2 == <<0, 1, 0, 2>>

FilenameCells ==
    { StringCell(<<"a", ".", "p", "d", "f">>),
      StringCell(<<" ", "a", ".", "p", "d", "f", " ">>),
      StringCell(<<"d", "/", "b", ".", "p", "d", "f">>),
      StringCell(<<" ">>),
      IntCell(I64Of(7)),
      FloatCell(FALSE, I64Of(1), TRUE),
      OtherCell }

PageCells ==
    { IntCell(I64Of(0)), IntCell(I64Of(1)), IntCell(I64Of(3)),
      IntCell(I64MinusOne), IntCell(I64TwoTo32), IntCell(I64TwoTo32Plus2),
      FloatCell(FALSE, I64Of(2), FALSE), FloatCell(FALSE, I64Of(2), TRUE),
      FloatCell(FALSE, I64Of(0), TRUE), FloatCell(TRUE, I64Of(1), FALSE),
      FloatCell(FALSE, I64TwoTo32, FALSE), NaNCell,
      StringCell(<<"2">>), OtherCell }

SheetRows ==
    { <<a, b>> : a \in FilenameCells, b \in PageCells }
    \cup { <<>>,
           <<StringCell(<<"a", ".", "p", "d", "f">>)>>,
           <<StringCell(<<"a", ".", "p", "d", "f">>), IntCell(I64Of(2)), OtherCell>> }

InitExcel ==
    /\ rows = <<>>
    /\ excel_pc = "open"
    /\ mappings = EmptyMap
    /\ NamesIdle
    /\ MatchIdle
    /\ RunIdle

\* open_workbook(excel_path)? returns the error
OpenWorkbookFails ==
    /\ excel_pc = "open"
    /\ excel_pc' = "failed"
    /\ UNCHANGED <<rows, mappings, nameVars, matchVars, runVars>>

\* worksheet_range_at(0) is not Some(Ok(range)): the empty table is returned
NoWorksheet ==
    /\ excel_pc = "open"
    /\ excel_pc' = "returned"
    /\ UNCHANGED <<rows, mappings, nameVars, matchVars, runVars>>

\* worksheet_range_at(0) is Some(Ok(range))
OpenWorksheet ==
    /\ excel_pc = "open"
    /\ excel_pc' = "reading"
    /\ UNCHANGED <<rows, mappings, nameVars, matchVars, runVars>>

\* the body of `for row in range.rows()`
ReadRow ==
    /\ excel_pc = "reading"
    /\ Len(rows) < MaxRows
    /\ \E row \in SheetRows :
          /\ rows' = Append(rows, row)
          /\ mappings' = read_row(mappings, row)
    /\ UNCHANGED <<excel_pc, nameVars, matchVars, runVars>>

\* the range is exhausted: Ok(mappings)
ReturnMappings ==
    /\ excel_pc = "reading"
    /\ excel_pc' = "returned"
    /\ UNCHANGED <<rows, mappings, nameVars, matchVars, runVars>>

NextExcel ==
    \/ OpenWorkbookFails
    \/ NoWorksheet
    \/ OpenWorksheet
    \/ ReadRow
    \/ ReturnMappings

SpecExcel == InitExcel /\ [][NextExcel]_vars

-----------------------------------------------------------------------------
(* Statements about read_excel_mappings.  A page number is read as the     *)
(* integer the cell carries: an Int cell's 64-bit value, a Float cell's    *)
(* value truncated toward zero.                                            *)

IsNumericCell(c) == c.kind \in {"Int", "Float"}

IsNegativeInt(c) == c.kind = "Int" /\ c.i[1] >= LimbBase \div 2

IsNegativeFloat(c) == c.kind = "Float" /\ ~c.nan /\ c.neg

\* the magnitude of the page number of a numeric cell that is not negative
PageMagnitude(c) == IF c.kind = "Int" THEN c.i ELSE c.mag

IsZeroPage(c) ==
    /\ IsNumericCell(c)
    /\ ~IsNegativeInt(c)
    /\ ~IsNegativeFloat(c)
    /\ c.kind = "Float" => ~c.nan
    /\ PageMagnitude(c) = <<0, 0, 0, 0>>

IsPositivePage(c) ==
    /\ IsNumericCell(c)
    /\ ~IsNegativeInt(c)
    /\ ~IsNegativeFloat(c)
    /\ c.kind = "Float" => ~c.nan
    /\ PageMagnitude(c) # <<0, 0, 0, 0>>

HasEmptyFilename(row) ==
    /\ Len(row) >= 1
    /\ row[1].kind = "String"
    /\ \A k \in 1..Len(row[1].s) : row[1].s[k] = " "

\* the rows C7 says are discarded
IsDiscardedRow(row) ==
    \/ HasEmptyFilename(row)
    \/ /\ Len(row) >= 2
       /\ \/ IsZeroPage(row[2])
          \/ IsNegativeInt(row[2])
          \/ IsNegativeFloat(row[2])
          \/ ~IsNumericCell(row[2])

\* C7: a row whose page number is zero, a negative integer, a negative
\* float or not numeric, or whose filename is empty after trimming, creates
\* no table entry and changes no existing entry.
C7_InvalidRowsDiscarded ==
    [][(rows' # rows /\ IsDiscardedRow(rows'[Len(rows')]))
         => mappings' = mappings]_vars

\* the rows C8 says make an entry: a filename that is not empty, a page >= 1
IsMappingRow(row) ==
    /\ Len(row) >= 2
    /\ filename_of(row[1]).tag = "Some"
    /\ filename_of(row[1]).val # <<>>
    /\ IsPositivePage(row[2])

\* the key of a mapping row: the final path segment of its filename
KeyOfRow(row) ==
    LET X == filename_of(row[1]).val IN unwrap_or(file_name(X), X)

\* p - 1 on four limbs, for p >= 1
MinusOne(p) ==
    IF p[4] > 0 THEN <<p[1], p[2], p[3], p[4] - 1>>
    ELSE IF p[3] > 0 THEN <<p[1], p[2], p[3] - 1, LimbMax>>
    ELSE IF p[2] > 0 THEN <<p[1], p[2] - 1, LimbMax, LimbMax>>
    ELSE <<p[1] - 1, LimbMax, LimbMax, LimbMax>>

\* C8: after read_excel_mappings the table maps the key of every mapping
\* row to p - 1, the last row of a key winning, for every integer p >= 1
\* including those at or above 2^32.
C8_TableHoldsPageMinusOne ==
    excel_pc = "returned" =>
        \A i \in 1..Len(rows) :
            (/\ IsMappingRow(rows[i])
             /\ \A j \in (i + 1)..Len(rows) :
                   ~(IsMappingRow(rows[j]) /\ KeyOfRow(rows[j]) = KeyOfRow(rows[i])))
            => /\ KeyOfRow(rows[i]) \in DOMAIN mappings
               /\ <<0, 0>> \o mappings[KeyOfRow(rows[i])]
                    = MinusOne(PageMagnitude(rows[i][2]))

-----------------------------------------------------------------------------
(* Specification of the matcher: match_pdf_name applied twice to the same  *)
(* target and table, the table iterated in two orders                      *)

\* a target is a stem, at most MaxDupSuffixes duplicate suffixes and an
\* optional extension
DupSuffixes ==
    { <<" ", "(", "1", ")">>, <<"(", "1", ")">>, <<" ", "(", "2", ")">> }

Targets ==
    { <<"a">> \o d \o e :
        d \in Concats(DupSuffixes, MaxDupSuffixes), e \in { <<>>, DotPdfLower } }

TableKeys ==
    { <<"a">>,
      <<"a", ".", "p", "d", "f">>,
      <<"a", " ", "(", "1", ")">>,
      <<"a", " ", "(", "2", ")", ".", "p", "d", "f">> }

TablePages == { U32Of(1), U32Of(2) }

Tables ==
    UNION { [K -> TablePages] :
              K \in { S \in SUBSET TableKeys : Cardinality(S) <= MaxKeys } }

InitMatch ==
    /\ pdf_filename \in Targets
    /\ mappings \in Tables
    /\ iter_order = <<>>
    /\ iter_order2 = <<>>
    /\ result = NotRun
    /\ result2 = NotRun
    /\ NamesIdle
    /\ ExcelIdle
    /\ RunIdle

MatchPdfName ==
    /\ result = NotRun
    /\ \E o1 \in IterationOrders(mappings) :
          /\ iter_order' = o1
          /\ result' = match_pdf_name(pdf_filename, mappings, o1)
    /\ \E o2 \in IterationOrders(mappings) :
          /\ iter_order2' = o2
          /\ result2' = match_pdf_name(pdf_filename, mappings, o2)
    /\ UNCHANGED <<pdf_filename, mappings, nameVars, excelVars, runVars>>

NextMatch == MatchPdfName

SpecMatch == InitMatch /\ [][NextMatch]_vars

-----------------------------------------------------------------------------
(* Statements about match_pdf_name *)

ContainsOne(t) == Occurrences(t, <<"(", "1", ")">>) # {}

\* the keys of the table whose base identity is that of t
SameBaseKeys(t, m) ==
    LET b == extract_base_name(t)
    IN  { k \in DOMAIN m : extract_base_name(k) = b }

\* the rule that decides the result for target t and table m
RuleOf(t, m) ==
    LET n == normalize_filename(t)
    IN  IF n \in DOMAIN m THEN "1"
        ELSE IF (n \o DotPdfLower) \in DOMAIN m THEN "2"
        ELSE IF ~ContainsOne(t) THEN "none"
        ELSE IF extract_base_name(t) \in DOMAIN m THEN "3a"
        ELSE IF SameBaseKeys(t, m) # {} THEN "3b"
        ELSE "none"

\* what the deciding rule allows r to be
DecidedInOrder(t, m, rule, r) ==
    CASE rule = "1" -> r = Some(m[normalize_filename(t)])
      [] rule = "2" -> r = Some(m[normalize_filename(t) \o DotPdfLower])
      [] rule = "3a" -> r = Some(m[extract_base_name(t)])
      [] rule = "3b" -> \E k \in SameBaseKeys(t, m) : r = Some(m[k])
      [] OTHER -> r = None

\* C1: the rules are applied in the order 1, 2, 3a, 3b and the first that
\* succeeds decides the result; with none, the result is NoMatch.
C1_FirstRuleWins ==
    result # NotRun =>
        LET rule == RuleOf(pdf_filename, mappings)
        IN  /\ DecidedInOrder(pdf_filename, mappings, rule, result)
            /\ DecidedInOrder(pdf_filename, mappings, rule, result2)

\* "a.pdf" against a table that holds both "a" and "a.pdf" with different
\* pages: rule 1 decides, rule 2 would have given the other page
C1_Witness ==
    /\ result # NotRun
    /\ pdf_filename = <<"a", ".", "p", "d", "f">>
    /\ <<"a">> \in DOMAIN mappings
    /\ <<"a", ".", "p", "d", "f">> \in DOMAIN mappings
    /\ mappings[<<"a", ".", "p", "d", "f">>] # mappings[<<"a">>]
    /\ result = Some(mappings[<<"a">>])

\* the duplicate suffix of t is "(2)": its identity ends with it
HasSuffixTwo(t) ==
    LET n == normalize_filename(t)
    IN  Len(n) >= 3 /\ SubSeq(n, Len(n) - 2, Len(n)) = <<"(", "2", ")">>

\* C2 as stated: a target whose duplicate suffix is "(k)", k other than 1,
\* that neither exact lookup resolves, gets NoMatch.
C2_OtherSuffixNoMatch ==
    (/\ result # NotRun
     /\ HasSuffixTwo(pdf_filename)
     /\ RuleOf(pdf_filename, mappings) \notin {"1", "2"})
    => result = None

\* C2 amended: such a target gets NoMatch provided "(1)" occurs nowhere in
\* its name.
C2_OtherSuffixWithoutOneNoMatch ==
    (/\ result # NotRun
     /\ HasSuffixTwo(pdf_filename)
     /\ ~ContainsOne(pdf_filename)
     /\ RuleOf(pdf_filename, mappings) \notin {"1", "2"})
    => result = None

\* "a (2).pdf" against a table that holds its base identity "a"
C2_Witness ==
    /\ pdf_filename = <<"a", " ", "(", "2", ")", ".", "p", "d", "f">>
    /\ <<"a">> \in DOMAIN mappings
    /\ result = None

\* C10: two evaluations under different iteration orders agree whenever
\* rule 1, 2 or 3a decides or all keys of the target's base identity carry
\* one page; they differ only under rule 3b with two such keys of different
\* pages, each result being the page of one of those keys.
C10_OrderDependenceOnlyInScan ==
    result # NotRun =>
        LET t == pdf_filename
            m == mappings
            same == SameBaseKeys(t, m)
            rule == RuleOf(t, m)
        IN  /\ rule \in {"1", "2", "3a"} => result = result2
            /\ (\A k1, k2 \in same : m[k1] = m[k2]) => result = result2
            /\ result # result2 =>
                  /\ rule = "3b"
                  /\ \E k1, k2 \in same :
                        /\ m[k1] # m[k2]
                        /\ result = Some(m[k1])
                        /\ result2 = Some(m[k2])

\* two iteration orders of one table give two different pages
C10_Witness ==
    /\ result # NotRun
    /\ iter_order # iter_order2
    /\ result # result2
    /\ RuleOf(pdf_filename, mappings) = "3b"


-----------------------------------------------------------------------------
(* Merge orchestration: documents, the external tool and the file system   *)

\* page k of bia.pdf, and page j of the i-th target as first discovered
BiaPage(k) == [doc |-> "bia", page |-> k]
TargetPage(i, j) == [doc |-> "target", file |-> i, page |-> j]
GarbagePage == [doc |-> "garbage"]

\* the content of the i-th discovered target before the run
OriginalPages(i) == <<TargetPage(i, 1), TargetPage(i, 2)>>

\* qpdf --empty --pages bia.pdf N target.pdf -- output.pdf
qpdf_pages(page, target) == <<BiaPage(page)>> \o target

\* `let page_number = page_index` in place of `page_index + 1`
page_number_of_unshifted(page_index) == page_index

\* `let page_number = page_index + 1`
page_number_of(page_index) == u32_add_one(page_index)

\* what one call of process_pdf_with_qpdf did, kept beside its outcome
NoCall ==
    [page |-> None, tool |-> "not run", copy |-> "not run",
     temp_written |-> FALSE, delete_attempted |-> FALSE]

\* the arm of main's match for the value the call returned
Returns(kind, why) ==
    /\ outcomes' = Append(outcomes,
                          [file |-> idx, outcome |-> kind, why |-> why, call |-> call'])
    /\ processed' = IF kind = "Inserted" THEN processed + 1 ELSE processed
    /\ skipped' = IF kind = "Skipped" THEN skipped + 1 ELSE skipped
    /\ errors' = IF kind = "Failed" THEN errors + 1 ELSE errors
    /\ idx' = idx + 1
    /\ pc' = "loop"

\* the variables the orchestration leaves alone
notRunVars ==
    <<filename, base, pdf_filename, iter_order2, result, result2, rows, excel_pc>>

InCall(at) == pc = at /\ idx <= Len(pdf_files)

\* if pdf_files.is_empty() { ...; return; }
NoPdfFiles ==
    /\ pc = "scanned"
    /\ pdf_files = <<>>
    /\ pc' = "no files"
    /\ UNCHANGED <<pdf_files, bia_page_count, target_content, temp_file, idx,
                   page_number, processed, skipped, errors, outcomes, call,
                   mappings, iter_order, notRunVars>>

\* let mut processed = 0; ... ; for pdf_path in pdf_files
EnterLoop ==
    /\ pc = "scanned"
    /\ pdf_files # <<>>
    /\ pc' = "loop"
    /\ UNCHANGED <<pdf_files, bia_page_count, target_content, temp_file, idx,
                   page_number, processed, skipped, errors, outcomes, call,
                   mappings, iter_order, notRunVars>>

\* file_name().and_then(|n| n.to_str()).ok_or("Invalid filename")?
InvalidFilename ==
    /\ InCall("loop")
    /\ ~pdf_files[idx].name_utf8
    /\ call' = NoCall
    /\ Returns("Failed", "invalid filename")
    /\ UNCHANGED <<pdf_files, bia_page_count, target_content, temp_file,
                   page_number, mappings, iter_order, notRunVars>>

\* match_pdf_name(filename, mappings) is None: Ok(false)
NoMatch ==
    /\ InCall("loop")
    /\ pdf_files[idx].name_utf8
    /\ match_pdf_name(pdf_files[idx].name, mappings, iter_order) = None
    /\ call' = NoCall
    /\ Returns("Skipped", "no match")
    /\ UNCHANGED <<pdf_files, bia_page_count, target_content, temp_file,
                   page_number, mappings, iter_order, notRunVars>>

\* match_pdf_name(filename, mappings) is Some(idx): page_number = idx + 1
Resolved ==
    /\ InCall("loop")
    /\ pdf_files[idx].name_utf8
    /\ LET r == match_pdf_name(pdf_files[idx].name, mappings, iter_order)
       IN  /\ r # None
           /\ page_number' = page_number_of(r.val)
    /\ pc' = "validate"
    /\ call' = NoCall
    /\ UNCHANGED <<pdf_files, bia_page_count, target_content, temp_file, idx,
                   processed, skipped, errors, outcomes, mappings, iter_order, notRunVars>>

\* if page_number as usize > bia_page_count { return Err(..) }
PageNumberExceeds ==
    /\ InCall("validate")
    /\ u32_gt_usize(page_number, bia_page_count)
    /\ call' = call
    /\ Returns("Failed", "page number exceeds page count")
    /\ UNCHANGED <<pdf_files, bia_page_count, target_content, temp_file,
                   page_number, mappings, iter_order, notRunVars>>

\* pdf_path.to_str().unwrap() on a path that is not valid UTF-8: the file
\* name is, a directory above it is not
PathUnwrapPanics ==
    /\ InCall("validate")
    /\ ~u32_gt_usize(page_number, bia_page_count)
    /\ ~pdf_files[idx].dir_utf8
    /\ pc' = "panicked"
    /\ UNCHANGED <<pdf_files, bia_page_count, target_content, temp_file, idx,
                   page_number, processed, skipped, errors, outcomes, call,
                   mappings, iter_order, notRunVars>>

\* Command::new("qpdf")...output()? is Err: the tool could not be started
QpdfSpawnFails ==
    /\ InCall("validate")
    /\ ~u32_gt_usize(page_number, bia_page_count)
    /\ pdf_files[idx].dir_utf8
    /\ call' = [call EXCEPT !.page = Some(page_number), !.tool = "not started"]
    /\ Returns("Failed", "tool not started")
    /\ UNCHANGED <<pdf_files, bia_page_count, target_content, temp_file,
                   page_number, mappings, iter_order, notRunVars>>

\* the tool runs to its end: it writes the merged document and exits with
\* success; or exits with failure, the output written in part or not at all;
\* or exits with success without an output
QpdfRuns ==
    /\ InCall("validate")
    /\ ~u32_gt_usize(page_number, bia_page_count)
    /\ pdf_files[idx].dir_utf8
    /\ \/ /\ temp_file' = Some(qpdf_pages(page_number, target_content[idx]))
          /\ call' = [call EXCEPT !.page = Some(page_number), !.tool = "ok",
                                  !.temp_written = TRUE]
       \/ /\ temp_file' = Some(<<GarbagePage>>)
          /\ call' = [call EXCEPT !.page = Some(page_number), !.tool = "failed",
                                  !.temp_written = TRUE]
       \/ /\ temp_file' = temp_file
          /\ call' = [call EXCEPT !.page = Some(page_number), !.tool = "failed"]
       \/ /\ temp_file' = temp_file
          /\ call' = [call EXCEPT !.page = Some(page_number), !.tool = "no output"]
    /\ pc' = "status"
    /\ UNCHANGED <<pdf_files, bia_page_count, target_content, idx, page_number,
                   processed, skipped, errors, outcomes, mappings, iter_order, notRunVars>>

\* the status test placed after the copy: the temporary output replaces the
\* target before the failure is returned
QpdfFailedAfterCopy ==
    /\ InCall("status")
    /\ call.tool = "failed"
    /\ call' = call
    /\ target_content' =
         IF temp_file = None THEN target_content
         ELSE [target_content EXCEPT ![idx] = temp_file.val]
    /\ Returns("Failed", "tool failed")
    /\ UNCHANGED <<pdf_files, bia_page_count, temp_file, page_number, mappings,
                   iter_order, notRunVars>>

\* if !output.status.success() { return Err(..) }
QpdfFailed ==
    /\ InCall("status")
    /\ call.tool = "failed"
    /\ call' = call
    /\ Returns("Failed", "tool failed")
    /\ UNCHANGED <<pdf_files, bia_page_count, target_content, temp_file,
                   page_number, mappings, iter_order, notRunVars>>

\* if !temp_output_pdf.exists() { return Err(..) }
TempOutputMissing ==
    /\ InCall("status")
    /\ call.tool # "failed"
    /\ temp_file = None
    /\ call' = call
    /\ Returns("Failed", "temporary output missing")
    /\ UNCHANGED <<pdf_files, bia_page_count, target_content, temp_file,
                   page_number, mappings, iter_order, notRunVars>>

\* fs::copy(&temp_output_pdf, pdf_path)? is Err: the target is as it was, or
\* was truncated and written in part; the function returns at once
CopyFails ==
    /\ InCall("status")
    /\ call.tool # "failed"
    /\ temp_file # None
    /\ \/ target_content' = target_content
       \/ target_content' = [target_content EXCEPT ![idx] = <<GarbagePage>>]
    /\ call' = [call EXCEPT !.copy = "failed"]
    /\ Returns("Failed", "copy failed")
    /\ UNCHANGED <<pdf_files, bia_page_count, temp_file, page_number, mappings,
                   iter_order, notRunVars>>

\* fs::copy(&temp_output_pdf, pdf_path)? is Ok
CopySucceeds ==
    /\ InCall("status")
    /\ call.tool # "failed"
    /\ temp_file # None
    /\ target_content' = [target_content EXCEPT ![idx] = temp_file.val]
    /\ call' = [call EXCEPT !.copy = "ok"]
    /\ pc' = "cleanup"
    /\ UNCHANGED <<pdf_files, bia_page_count, temp_file, idx, page_number,
                   processed, skipped, errors, outcomes, mappings, iter_order, notRunVars>>

\* let _ = fs::remove_file(&temp_output_pdf); Ok(true)
RemoveTempFile ==
    /\ InCall("cleanup")
    /\ temp_file' \in {None, temp_file}
    /\ call' = [call EXCEPT !.delete_attempted = TRUE]
    /\ Returns("Inserted", "inserted")
    /\ UNCHANGED <<pdf_files, bia_page_count, target_content, page_number,
                   mappings, iter_order, notRunVars>>

\* the loop is over: println!("=== Summary ===") and the three counts
Summary ==
    /\ pc = "loop"
    /\ idx > Len(pdf_files)
    /\ pc' = "summary"
    /\ UNCHANGED <<pdf_files, bia_page_count, target_content, temp_file, idx,
                   page_number, processed, skipped, errors, outcomes, call,
                   mappings, iter_order, notRunVars>>

-----------------------------------------------------------------------------
(* Specification of a run: main from the scan of the child directories to  *)
(* the summary, over at most MaxFiles discovered files                     *)

PdfPath(name, name_utf8, dir_utf8) ==
    [name |-> name, name_utf8 |-> name_utf8, dir_utf8 |-> dir_utf8]

DiscoveredFiles ==
    { PdfPath(<<"a", ".", "p", "d", "f">>, TRUE, TRUE),
      PdfPath(<<"a", " ", "(", "1", ")", ".", "p", "d", "f">>, TRUE, TRUE),
      PdfPath(<<"a", " ", "(", "2", ")", ".", "p", "d", "f">>, TRUE, TRUE),
      PdfPath(<<"a", ".", "p", "d", "f">>, TRUE, FALSE),
      PdfPath(<<>>, FALSE, TRUE) }

FileLists == UNION { [1..n -> DiscoveredFiles] : n \in 0..MaxFiles }

BiaPageCounts == { 1, 2 }

\* page indexes read_excel_mappings can store: page_num - 1 for a u32
\* page_num that is not 0
RunPageIndexes == { U32Of(0), U32Of(1), U32Of(2), <<LimbMax, LimbMax - 1>> }

RunTables ==
    { EmptyMap }
    \cup [ { <<"a">> } -> RunPageIndexes ]
    \cup { [ k \in { <<"a", ".", "p", "d", "f">>,
                      <<"a", " ", "(", "2", ")", ".", "p", "d", "f">> }
             |-> IF k = <<"a", ".", "p", "d", "f">> THEN U32Of(0) ELSE U32Of(1) ] }

InitRun ==
    /\ pdf_files \in FileLists
    /\ bia_page_count \in BiaPageCounts
    /\ mappings \in RunTables
    /\ iter_order \in IterationOrders(mappings)
    /\ target_content = [i \in 1..Len(pdf_files) |-> OriginalPages(i)]
    /\ temp_file = None
    /\ pc = "scanned"
    /\ idx = 1
    /\ page_number = U32Zero
    /\ processed = 0
    /\ skipped = 0
    /\ errors = 0
    /\ outcomes = <<>>
    /\ call = NoCall
    /\ NamesIdle
    /\ pdf_filename = <<>>
    /\ iter_order2 = <<>>
    /\ result = NotRun
    /\ result2 = NotRun
    /\ ExcelIdle

NextRun ==
    \/ NoPdfFiles
    \/ EnterLoop
    \/ InvalidFilename
    \/ NoMatch
    \/ Resolved
    \/ PageNumberExceeds
    \/ PathUnwrapPanics
    \/ QpdfSpawnFails
    \/ QpdfRuns
    \/ QpdfFailed
    \/ TempOutputMissing
    \/ CopyFails
    \/ CopySucceeds
    \/ RemoveTempFile
    \/ Summary

Spec == InitRun /\ [][NextRun]_vars

-----------------------------------------------------------------------------
(* Statements about the orchestration and the run *)

\* the outcomes C3 names: Skipped, and Failed by the page count, by the
\* tool's status or by the missing temporary output
LeavesTargetAlone(e) ==
    \/ e.outcome = "Skipped"
    \/ /\ e.outcome = "Failed"
       /\ e.why \in { "page number exceeds page count", "tool failed",
                       "temporary output missing" }

\* C3: a call that ends Skipped, or Failed by the page count, by the tool's
\* status or by the missing temporary output, leaves the target's content as
\* it was before the call; only the copy step writes a target.
C3_TargetUntouched ==
    /\ [](\A k \in 1..Len(outcomes) :
            LeavesTargetAlone(outcomes[k])
                => target_content[outcomes[k].file] = OriginalPages(outcomes[k].file))
    /\ [][target_content' # target_content => call'.copy # "not run"]_vars

\* a call failed by the tool's status after the tool had written the
\* temporary output, the target as it was
C3_Witness ==
    \E k \in 1..Len(outcomes) :
        /\ outcomes[k].why = "tool failed"
        /\ outcomes[k].call.temp_written
        /\ target_content[outcomes[k].file] = OriginalPages(outcomes[k].file)

\* C4: once the merge has written the temporary file and the copy has been
\* tried, the call attempts to delete the temporary file before it returns,
\* whether the copy succeeded or failed.
C4_TempAlwaysCleaned ==
    \A k \in 1..Len(outcomes) :
        (outcomes[k].call.temp_written /\ outcomes[k].call.copy # "not run")
            => outcomes[k].call.delete_attempted

\* C5: when the tool and the copy both succeed the outcome is Inserted, the
\* page passed to the tool is the table's page_index + 1, it lies in
\* 1..bia_page_count, and the target is that page of bia.pdf followed by the
\* target's original pages in their order.
C5_InsertedPageThenOriginal ==
    \A k \in 1..Len(outcomes) :
        LET e == outcomes[k]
            page_index == match_pdf_name(pdf_files[e.file].name, mappings, iter_order)
            page == u32_add_one(page_index.val)
        IN  (e.call.tool = "ok" /\ e.call.copy = "ok")
            => /\ e.outcome = "Inserted"
               /\ page_index.tag = "Some"
               /\ e.call.page = Some(page)
               /\ page # U32Zero
               /\ ~u32_gt_usize(page, bia_page_count)
               /\ target_content[e.file] = <<BiaPage(page)>> \o OriginalPages(e.file)
               /\ Len(target_content[e.file]) = Len(OriginalPages(e.file)) + 1

\* a target mapped to page_index 1 that now starts with page 2 of bia.pdf
C5_Witness ==
    \E k \in 1..Len(outcomes) :
        /\ outcomes[k].outcome = "Inserted"
        /\ outcomes[k].call.tool = "ok"
        /\ outcomes[k].call.page = Some(U32Of(2))
        /\ target_content[outcomes[k].file][1] = BiaPage(U32Of(2))

RunEnded == pc \in { "summary", "panicked" }

\* C6: a run over discovered files ends with the summary, every file
\* processed once and in sequence, the three counts adding up to the number
\* of files.
C6_RunEndsWithSummary ==
    (RunEnded /\ pdf_files # <<>>)
    => /\ pc = "summary"
       /\ Len(outcomes) = Len(pdf_files)
       /\ \A k \in 1..Len(outcomes) : outcomes[k].file = k
       /\ processed + skipped + errors = Len(pdf_files)

====
